---- MODULE Spec2Model ----
(***************************************************************************)
(* create_grid of Configuration-Space.ipynb: a list of box obstacles, a    *)
(* drone altitude and a safety distance are turned into a 2D occupancy     *)
(* grid.                                                                   *)
(*                                                                         *)
(* Real numbers are fixed-point integers counting units of 1/Scale, so     *)
(* that floor, ceil, int() and clip act on values that are not whole.      *)
(* Grid sizes and indices (the results of int()) are plain integers.       *)
(***************************************************************************)
EXTENDS Integers, Sequences, FiniteSets, TLC

\* fixed-point resolution: the real number x is stored as x * Scale
Scale == 2
\* longest obstacle list
MaxObstacles == 2
\* north coordinate of the far obstacle, in whole units
Far == 6

\* pending is used by the parallel marking only: the cells each worker has
\* still to write
VARIABLES data, drone_altitude, safety_distance, pc, north_min, north_max,
          east_min, east_max, north_size, east_size, grid, i, ret, err, pending

vars == <<data, drone_altitude, safety_distance, pc, north_min, north_max,
          east_min, east_max, north_size, east_size, grid, i, ret, err, pending>>

(***************************************************************************)
(* Inputs                                                                  *)
(***************************************************************************)
\* one row of data: north, east, alt, d_north, d_east, d_alt
Obstacle(n, e, a, dn, de, da) ==
  [north |-> n, east |-> e, alt |-> a, d_north |-> dn, d_east |-> de, d_alt |-> da]

\* (north, d_north) pairs: a box, a point at a whole coordinate, and a far
\* box with fractional sides
NorthParts == {<<0, 2 * Scale>>, <<0, 0>>, <<Far * Scale, 1>>}
\* (east, d_east) pairs: a box, a point at a whole coordinate, and a point at
\* a fractional coordinate
EastParts == {<<0, 2 * Scale>>, <<Scale, 0>>, <<3 * Scale + 1, 0>>}
\* (alt, d_alt) pairs
AltParts == {<<5 * Scale, 5 * Scale>>, <<5 * Scale, 6 * Scale>>}

Obstacles ==
  {Obstacle(np[1], ep[1], ap[1], np[2], ep[2], ap[2]) :
     np \in NorthParts, ep \in EastParts, ap \in AltParts}

\* obstacles whose half-extents may be negative
NegObstacles ==
  {Obstacle(0, 0, 5 * Scale, dn, de, da) :
     dn \in {-2 * Scale, -1, 2 * Scale}, de \in {-Scale, 2 * Scale},
     da \in {-5 * Scale, 5 * Scale}}
  \cup {Obstacle(Far * Scale, Scale, 5 * Scale, 1, 0, 5 * Scale)}

Altitudes == {Scale, 11 * Scale, 12 * Scale}
\* negative, zero, fractional, one unit, and wider than any grid here
Margins == {-Scale, 0, 1, Scale, 8 * Scale}

SeqsUpTo(S, n) == UNION {[1..k -> S] : k \in 0..n}

(***************************************************************************)
(* numpy and Python primitives                                             *)
(***************************************************************************)
Floor(x) == (x \div Scale) * Scale
Ceil(x) == -Floor(-x)
\* int(): truncation toward zero, the result is a whole number
PyInt(x) == IF x >= 0 THEN x \div Scale ELSE -((-x) \div Scale)
Minimum(a, b) == IF a <= b THEN a ELSE b
Maximum(a, b) == IF a >= b THEN a ELSE b
\* mutant: the upper limit is not applied
ClipLowerOnly(a, a_min, a_max) == Maximum(a, a_min)
\* np.clip is minimum(a_max, maximum(a, a_min)), also when a_min > a_max
Clip(a, a_min, a_max) == Minimum(a_max, Maximum(a, a_min))
\* mutant: the reduction of an empty array yields its initial value
EmptyReductionAllowed(d) == FALSE
\* np.min and np.max raise ValueError on an array of size zero
EmptyReduction(d) == Len(d) = 0
NpMin(S) == IF S = {} THEN 0 ELSE CHOOSE x \in S : \A y \in S : x <= y
NpMax(S) == IF S = {} THEN 0 ELSE CHOOSE x \in S : \A y \in S : x >= y
\* np.zeros raises ValueError on a negative dimension
ZerosRaises(r, c) == r < 0 \/ c < 0
Zeros(r, c) ==
  [bound |-> TRUE, rows |-> r, cols |-> c,
   cells |-> [p \in (0..(r - 1)) \X (0..(c - 1)) |-> 0]]
Unbound == [bound |-> FALSE]
\* indices selected by the slice start:stop on an axis of length n
SliceEnd(k, n) ==
  IF k < 0 THEN Maximum(k + n, 0) ELSE Minimum(k, n)
PySlice(start, stop, n) == {k \in 0..(n - 1) : SliceEnd(start, n) <= k /\ k < SliceEnd(stop, n)}

(***************************************************************************)
(* create_grid, line by line                                               *)
(***************************************************************************)
\* mutant: the minimum is taken over the centres, the half-widths forgotten
NorthMinOfCentres(d) == Floor(NpMin({d[k].north : k \in 1..Len(d)}))
\* mutant: half-extents are sanitized to their absolute value
NorthMinAbs(d) ==
  Floor(NpMin({d[k].north - (IF d[k].d_north < 0 THEN -d[k].d_north ELSE d[k].d_north) :
               k \in 1..Len(d)}))
NorthMin(d) == Floor(NpMin({d[k].north - d[k].d_north : k \in 1..Len(d)}))
NorthMax(d) == Ceil(NpMax({d[k].north + d[k].d_north : k \in 1..Len(d)}))
EastMin(d) == Floor(NpMin({d[k].east - d[k].d_east : k \in 1..Len(d)}))
EastMax(d) == Ceil(NpMax({d[k].east + d[k].d_east : k \in 1..Len(d)}))
\* mutant: the operands of the difference are exchanged
NorthSizeSwapped(nmax, nmin) == PyInt(Ceil(nmin - nmax))
\* mutant: one row too many
NorthSizePlusOne(nmax, nmin) == PyInt(Ceil(nmax - nmin)) + 1
NorthSize(nmax, nmin) == PyInt(Ceil(nmax - nmin))
\* mutant: one column too many
EastSizePlusOne(emax, emin) == PyInt(Ceil(emax - emin)) + 1
EastSize(emax, emin) == PyInt(Ceil(emax - emin))

\* mutant: the test admits equality
AltitudeTestInclusive(o, altitude, sd) == o.alt + o.d_alt + sd >= altitude
\* mutant: the comparison is turned around
AltitudeTestReversed(o, altitude, sd) == o.alt + o.d_alt + sd < altitude
AltitudeTest(o, altitude, sd) == o.alt + o.d_alt + sd > altitude

\* mutant: the margin is added to the low bound instead of subtracted
ObstacleLowMarginAdded(c, d, sd, cmin, size) ==
  PyInt(Clip(c - d + sd - cmin, 0, (size - 1) * Scale))
\* the list "obstacle" of four clipped indices
ObstacleLow(c, d, sd, cmin, size) == PyInt(Clip(c - d - sd - cmin, 0, (size - 1) * Scale))
ObstacleHigh(c, d, sd, cmin, size) == PyInt(Clip(c + d + sd - cmin, 0, (size - 1) * Scale))
ObstacleIdx(o, sd, nmin, emin, nsize, esize) ==
  <<ObstacleLow(o.north, o.d_north, sd, nmin, nsize),
    ObstacleHigh(o.north, o.d_north, sd, nmin, nsize),
    ObstacleLow(o.east, o.d_east, sd, emin, esize),
    ObstacleHigh(o.east, o.d_east, sd, emin, esize)>>

\* mutant: the slices stop before the high index, grid[ob[0]:ob[1], ob[2]:ob[3]] = 1
SliceAssignExclusive(g, ob) ==
  LET R == PySlice(ob[1], ob[2], g.rows)
      C == PySlice(ob[3], ob[4], g.cols)
  IN [g EXCEPT !.cells =
        [p \in DOMAIN g.cells |-> IF p[1] \in R /\ p[2] \in C THEN 1 ELSE g.cells[p]]]
\* grid[ob[0]:ob[1]+1, ob[2]:ob[3]+1] = 1
SliceAssign(g, ob) ==
  LET R == PySlice(ob[1], ob[2] + 1, g.rows)
      C == PySlice(ob[3], ob[4] + 1, g.cols)
  IN [g EXCEPT !.cells =
        [p \in DOMAIN g.cells |-> IF p[1] \in R /\ p[2] \in C THEN 1 ELSE g.cells[p]]]

\* mutant: an obstacle that fails the test clears its rectangle
PopulateClearing(g, o, altitude, sd, nmin, emin) ==
  LET ob == ObstacleIdx(o, sd, nmin, emin, g.rows, g.cols)
      R == PySlice(ob[1], ob[2] + 1, g.rows)
      C == PySlice(ob[3], ob[4] + 1, g.cols)
      v == IF AltitudeTest(o, altitude, sd) THEN 1 ELSE 0
  IN [g EXCEPT !.cells =
        [p \in DOMAIN g.cells |-> IF p[1] \in R /\ p[2] \in C THEN v ELSE g.cells[p]]]
\* one pass of the loop body for obstacle o
Populate(g, o, altitude, sd, nmin, emin) ==
  IF AltitudeTest(o, altitude, sd)
  THEN SliceAssign(g, ObstacleIdx(o, sd, nmin, emin, g.rows, g.cols))
  ELSE g

\* mutant: the origin is returned with the grid
ReturnValueWithOrigin(g, nmin, emin) == <<g, <<nmin, emin>>>>
\* the value of the return statement
ReturnValue(g, nmin, emin) == <<g>>

(***************************************************************************)
(* The state machine                                                       *)
(***************************************************************************)
Locals ==
  /\ pc = "start"
  /\ north_min = 0 /\ north_max = 0 /\ east_min = 0 /\ east_max = 0
  /\ north_size = 0 /\ east_size = 0
  /\ grid = Unbound
  /\ i = 0
  /\ ret = <<>>
  /\ err = "none"
  /\ pending = <<>>

InitWith(O) ==
  /\ data \in SeqsUpTo(O, MaxObstacles)
  /\ drone_altitude \in Altitudes
  /\ safety_distance \in Margins
  /\ Locals

Init == InitWith(Obstacles)
InitNeg == InitWith(NegObstacles)

\* lines 122-135: bounding extent, grid size, empty grid
Setup ==
  /\ pc = "start"
  /\ IF EmptyReduction(data)
     THEN /\ pc' = "raised"
          /\ err' = "ValueError"
          /\ UNCHANGED <<north_min, north_max, east_min, east_max, north_size,
                         east_size, grid, i>>
     ELSE LET nmin == NorthMin(data)
              nmax == NorthMax(data)
              emin == EastMin(data)
              emax == EastMax(data)
              nsize == NorthSize(nmax, nmin)
              esize == EastSize(emax, emin)
          IN /\ north_min' = nmin /\ north_max' = nmax
             /\ east_min' = emin /\ east_max' = emax
             /\ north_size' = nsize /\ east_size' = esize
             /\ IF ZerosRaises(nsize, esize)
                THEN /\ pc' = "raised"
                     /\ err' = "ValueError"
                     /\ UNCHANGED <<grid, i>>
                ELSE /\ grid' = Zeros(nsize, esize)
                     /\ i' = 1
                     /\ pc' = "loop"
                     /\ err' = err
  /\ UNCHANGED <<data, drone_altitude, safety_distance, ret, pending>>

\* lines 138-147: one iteration of the loop over the rows of data
LoopBody ==
  /\ pc = "loop"
  /\ i <= Len(data)
  /\ grid' = Populate(grid, data[i], drone_altitude, safety_distance, north_min, east_min)
  /\ i' = i + 1
  /\ UNCHANGED <<data, drone_altitude, safety_distance, pc, north_min, north_max,
                 east_min, east_max, north_size, east_size, ret, err, pending>>

\* line 149
Return ==
  /\ pc = "loop"
  /\ i > Len(data)
  /\ ret' = ReturnValue(grid, north_min, east_min)
  /\ pc' = "done"
  /\ UNCHANGED <<data, drone_altitude, safety_distance, north_min, north_max,
                 east_min, east_max, north_size, east_size, grid, i, err, pending>>

Next == Setup \/ LoopBody \/ Return

Spec == Init /\ [][Next]_vars
SpecNeg == InitNeg /\ [][Next]_vars

\* the loop run to its end from row k of d
RECURSIVE PopulateFrom(_, _, _, _, _, _, _)
PopulateFrom(g, d, k, altitude, sd, nmin, emin) ==
  IF k > Len(d)
  THEN g
  ELSE PopulateFrom(Populate(g, d[k], altitude, sd, nmin, emin), d, k + 1,
                    altitude, sd, nmin, emin)

\* a whole call of create_grid: what it returns, or that it raised
CreateGrid(d, altitude, sd) ==
  IF EmptyReduction(d)
  THEN [raised |-> TRUE, ret |-> <<>>]
  ELSE LET nmin == NorthMin(d)
           emin == EastMin(d)
           nsize == NorthSize(NorthMax(d), nmin)
           esize == EastSize(EastMax(d), emin)
       IN IF ZerosRaises(nsize, esize)
          THEN [raised |-> TRUE, ret |-> <<>>]
          ELSE [raised |-> FALSE,
                ret |-> ReturnValue(PopulateFrom(Zeros(nsize, esize), d, 1,
                                                 altitude, sd, nmin, emin),
                                    nmin, emin)]

(***************************************************************************)
(* Step 4 run by one worker per obstacle (section 5 of the specification): *)
(* lines 122-135 run as before, then every worker writes the cells of its  *)
(* own obstacle one at a time, in any interleaving with the others, and    *)
(* the grid is returned once all of them are finished.                     *)
(***************************************************************************)
\* small boxes: two that overlap, and a low one that fails the altitude test
ParObstacles ==
  {Obstacle(0, 0, 5 * Scale, 1, 1, 5 * Scale),
   Obstacle(Scale, 0, 5 * Scale, 1, 1, 5 * Scale),
   Obstacle(0, 0, Scale, 1, 1, 0)}

InitPar ==
  /\ data \in SeqsUpTo(ParObstacles, MaxObstacles)
  /\ drone_altitude = 2 * Scale
  /\ safety_distance \in {-1, 0}
  /\ Locals

\* the cells lines 140-147 assign for obstacle o
WorkerCells(o) ==
  IF AltitudeTest(o, drone_altitude, safety_distance)
  THEN LET ob == ObstacleIdx(o, safety_distance, north_min, east_min, grid.rows, grid.cols)
       IN PySlice(ob[1], ob[2] + 1, grid.rows) \X PySlice(ob[3], ob[4] + 1, grid.cols)
  ELSE {}

\* the workers are started, one per row of data
Fork ==
  /\ pc = "loop"
  /\ pending' = [k \in 1..Len(data) |-> WorkerCells(data[k])]
  /\ pc' = "par"
  /\ UNCHANGED <<data, drone_altitude, safety_distance, north_min, north_max,
                 east_min, east_max, north_size, east_size, grid, i, ret, err>>

\* worker k writes BLOCKED into one of its cells
WorkerWrite(k) ==
  /\ pc = "par"
  /\ \E p \in pending[k] :
       /\ grid' = [grid EXCEPT !.cells[p] = 1]
       /\ pending' = [pending EXCEPT ![k] = @ \ {p}]
  /\ UNCHANGED <<data, drone_altitude, safety_distance, pc, north_min, north_max,
                 east_min, east_max, north_size, east_size, i, ret, err>>

\* all workers are finished: line 149
Join ==
  /\ pc = "par"
  /\ \A k \in 1..Len(data) : pending[k] = {}
  /\ ret' = ReturnValue(grid, north_min, east_min)
  /\ pc' = "done"
  /\ UNCHANGED <<data, drone_altitude, safety_distance, north_min, north_max,
                 east_min, east_max, north_size, east_size, grid, i, err, pending>>

NextPar == Setup \/ Fork \/ (\E k \in 1..MaxObstacles : k <= Len(data) /\ WorkerWrite(k)) \/ Join

SpecPar == InitPar /\ [][NextPar]_vars

TypeOK ==
  /\ pc \in {"start", "loop", "par", "done", "raised"}
  /\ err \in {"none", "ValueError"}
  /\ (pc = "raised") = (err = "ValueError")
  /\ (pc \in {"loop", "par", "done"}) = grid.bound

\* the stepwise run and the whole call agree
RunAgrees ==
  /\ pc = "done" => CreateGrid(data, drone_altitude, safety_distance) = [raised |-> FALSE, ret |-> ret]
  /\ pc = "raised" => CreateGrid(data, drone_altitude, safety_distance).raised

(***************************************************************************)
(* What the specification says, written without the operators above        *)
(***************************************************************************)
Rows == 1..Len(data)
\* floor and ceil by their defining inequalities
SpecFloor(x) == CHOOSE v \in (x - Scale + 1)..x : v % Scale = 0
SpecCeil(x) == CHOOSE v \in x..(x + Scale - 1) : v % Scale = 0
Least(S) == CHOOSE x \in S : \A y \in S : x <= y
Greatest(S) == CHOOSE x \in S : \A y \in S : y <= x
SpecNorthMin == SpecFloor(Least({data[k].north - data[k].d_north : k \in Rows}))
SpecNorthMax == SpecCeil(Greatest({data[k].north + data[k].d_north : k \in Rows}))
SpecEastMin == SpecFloor(Least({data[k].east - data[k].d_east : k \in Rows}))
SpecEastMax == SpecCeil(Greatest({data[k].east + data[k].d_east : k \in Rows}))
\* the grid dimensions, whole numbers
SpecRows == SpecCeil(SpecNorthMax - SpecNorthMin) \div Scale
SpecCols == SpecCeil(SpecEastMax - SpecEastMin) \div Scale
Passes(o, altitude, margin) == o.alt + o.d_alt + margin > altitude
Clamp(x, lo, hi) == IF x < lo THEN lo ELSE IF x > hi THEN hi ELSE x
\* the extent and dimensions the specification gives for data
SpecExtent ==
  [nmin |-> SpecNorthMin, emin |-> SpecEastMin, rows |-> SpecRows, cols |-> SpecCols]
\* the inflated footprint of o, translated by the origin and clamped to the
\* extent of the grid, [0, rows] x [0, cols], covers the unit square of cell p
\* (the clamp of step 4d, to rows - 1 and cols - 1, only shrinks the footprint)
CoversCell(o, margin, p, x) ==
  /\ Clamp(o.north - o.d_north - margin - x.nmin, 0, x.rows * Scale) <= p[1] * Scale
  /\ (p[1] + 1) * Scale <= Clamp(o.north + o.d_north + margin - x.nmin, 0, x.rows * Scale)
  /\ Clamp(o.east - o.d_east - margin - x.emin, 0, x.cols * Scale) <= p[2] * Scale
  /\ (p[2] + 1) * Scale <= Clamp(o.east + o.d_east + margin - x.emin, 0, x.cols * Scale)
\* with the bounds of the inflated footprint of o translated by the origin and
\* clamped into [0, rows - 1] and [0, cols - 1] (step 4d), the index of cell p
\* lies between the truncated bounds: low < index + 1 and index <= high
TouchesCell(o, margin, p, x) ==
  /\ Clamp(o.north - o.d_north - margin - x.nmin, 0, (x.rows - 1) * Scale) < (p[1] + 1) * Scale
  /\ p[1] * Scale <= Clamp(o.north + o.d_north + margin - x.nmin, 0, (x.rows - 1) * Scale)
  /\ Clamp(o.east - o.d_east - margin - x.emin, 0, (x.cols - 1) * Scale) < (p[2] + 1) * Scale
  /\ p[2] * Scale <= Clamp(o.east + o.d_east + margin - x.emin, 0, (x.cols - 1) * Scale)
Blocked(g) == {p \in DOMAIN g.cells : g.cells[p] = 1}
Free(g) == {p \in DOMAIN g.cells : g.cells[p] = 0}
Returned == pc = "done" /\ Len(ret) >= 1

(***************************************************************************)
(* C1                                                                      *)
(***************************************************************************)
\* C1 as stated: a cell of the returned grid is BLOCKED exactly when some
\* obstacle passing the altitude test has a clamped, translated, inflated
\* footprint that covers the cell's unit square.
C1_BlockedIffCovered ==
  Returned =>
    LET x == SpecExtent
    IN \A p \in DOMAIN ret[1].cells :
         (ret[1].cells[p] = 1) <=>
           \E k \in Rows : /\ Passes(data[k], drone_altitude, safety_distance)
                           /\ CoversCell(data[k], safety_distance, p, x)

\* C1 amended: a cell (row, col) of the returned grid is BLOCKED exactly when
\* some obstacle passing the altitude test has clamped translated bounds with
\* low < row + 1 and row <= high on the north axis and low < col + 1 and
\* col <= high on the east axis (the cell index lies in the closed rectangle
\* of truncated bounds); every other cell is FREE.
C1_BlockedIffInIndexRectangle ==
  Returned =>
    LET x == SpecExtent
    IN /\ DOMAIN ret[1].cells = (0..(x.rows - 1)) \X (0..(x.cols - 1))
       /\ \A p \in DOMAIN ret[1].cells :
            /\ ret[1].cells[p] \in {0, 1}
            /\ (ret[1].cells[p] = 1) <=>
                 \E k \in Rows : /\ Passes(data[k], drone_altitude, safety_distance)
                                 /\ TouchesCell(data[k], safety_distance, p, x)

\* two obstacles far apart, both marked, with FREE cells in the rows between
C1_Witness ==
  /\ Returned
  /\ Len(data) = 2
  /\ \A k \in Rows : Passes(data[k], drone_altitude, safety_distance)
  /\ \E p, q, r \in DOMAIN ret[1].cells :
       /\ p[1] < q[1] /\ q[1] < r[1]
       /\ p[2] = q[2] /\ q[2] = r[2]
       /\ ret[1].cells[p] = 1 /\ ret[1].cells[q] = 0 /\ ret[1].cells[r] = 1

(***************************************************************************)
(* C2                                                                      *)
(***************************************************************************)
\* C2: for a non-empty obstacle list the returned grid has
\* ceil(north_max - north_min) rows and ceil(east_max - east_min) columns,
\* the extent being that of the footprints without margin; the run's altitude
\* and margin do not enter.
C2_GridDimensions ==
  Returned =>
    /\ ret[1].rows = SpecRows
    /\ ret[1].cols = SpecCols
    /\ DOMAIN ret[1].cells = (0..(SpecRows - 1)) \X (0..(SpecCols - 1))

\* a grid whose extent has fractional edges on both axes, built with a margin
C2_Witness ==
  /\ Returned
  /\ safety_distance > 0
  /\ \E k \in Rows : (data[k].north - data[k].d_north) % Scale # 0
  /\ \E k \in Rows : (data[k].east + data[k].d_east) % Scale # 0
  /\ ret[1].rows > 1 /\ ret[1].cols > 1

(***************************************************************************)
(* C3                                                                      *)
(***************************************************************************)
SeqPerms(d) == {[k \in 1..Len(d) |-> d[f[k]]] : f \in Permutations(1..Len(d))}

\* C3: create_grid run on any permutation of the obstacle list returns the
\* grid of the original order, same dimensions and same cells.
C3_OrderInvariance ==
  Returned =>
    \A d \in SeqPerms(data) :
      CreateGrid(d, drone_altitude, safety_distance) = [raised |-> FALSE, ret |-> ret]

\* two different overlapping obstacles, one passing and one failing the test
C3_Witness ==
  /\ Returned
  /\ Len(data) = 2
  /\ data[1] # data[2]
  /\ Passes(data[1], drone_altitude, safety_distance)
  /\ ~Passes(data[2], drone_altitude, safety_distance)
  /\ \E p \in Blocked(ret[1]) : TouchesCell(data[2], safety_distance, p, SpecExtent)

(***************************************************************************)
(* C4                                                                      *)
(***************************************************************************)
AllFail == \A k \in Rows : data[k].alt + data[k].d_alt + safety_distance <= drone_altitude

\* C4: an iteration for an obstacle with alt + d_alt + margin <= altitude
\* (equality included) leaves the grid as it is; when every obstacle fails
\* the test the call returns, without error, a grid of the usual dimensions
\* with every cell FREE.
C4_StrictAltitudeTest ==
  /\ [][(/\ pc = "loop"
         /\ i <= Len(data)
         /\ data[i].alt + data[i].d_alt + safety_distance <= drone_altitude)
        => grid' = grid]_vars
  /\ []((data # <<>> /\ AllFail /\ pc # "start" /\ pc # "loop") =>
          /\ pc = "done"
          /\ err = "none"
          /\ ret[1].rows = SpecRows /\ ret[1].cols = SpecCols
          /\ Blocked(ret[1]) = {})

\* every obstacle fails, one of them by equality, and the grid has cells
C4_Witness ==
  /\ Returned
  /\ data # <<>>
  /\ AllFail
  /\ \E k \in Rows : data[k].alt + data[k].d_alt + safety_distance = drone_altitude
  /\ Free(ret[1]) # {}
  /\ Blocked(ret[1]) = {}

(***************************************************************************)
(* C5                                                                      *)
(***************************************************************************)
\* C5 as stated: a successful call returns the grid together with the origin
\* (north_min, east_min) = (floor(min(north - d_north)), floor(min(east - d_east))).
C5_ReturnsGridAndOrigin ==
  pc = "done" =>
    /\ Len(ret) = 2
    /\ ret[1] = grid
    /\ ret[2] = <<SpecNorthMin, SpecEastMin>>

\* C5 amended: a successful call returns the grid alone; the offset
\* (north_min, east_min) = (floor(min(north - d_north)), floor(min(east - d_east)))
\* that translated world coordinates into indices stays local to the call.
C5_ReturnsGridOnly ==
  pc = "done" =>
    /\ ret = <<grid>>
    /\ north_min = SpecNorthMin
    /\ east_min = SpecEastMin

\* a returned grid whose origin is not (0, 0) and is the floor of fractional minima
C5_Witness ==
  /\ Returned
  /\ Blocked(ret[1]) # {}
  /\ north_min > 0 /\ east_min > 0
  /\ \A k \in Rows : /\ (data[k].north - data[k].d_north) % Scale # 0
                      /\ (data[k].east - data[k].d_east) % Scale # 0

(***************************************************************************)
(* C6                                                                      *)
(***************************************************************************)
\* C6: with an empty obstacle list the call raises an error before a grid
\* exists: no grid is allocated and nothing is returned.
C6_EmptyInputRaises ==
  (data = <<>> /\ pc # "start") =>
    /\ pc = "raised"
    /\ err # "none"
    /\ grid = Unbound
    /\ ret = <<>>

\* the call on the empty list has raised
C6_Witness == data = <<>> /\ pc = "raised" /\ err = "ValueError"

(***************************************************************************)
(* C7 (stated of SpecNeg, where half-extents may be negative)             *)
(***************************************************************************)
HasNegativeHalfExtent ==
  \E k \in Rows : data[k].d_north < 0 \/ data[k].d_east < 0 \/ data[k].d_alt < 0

\* C7 as stated: a call with a negative half-extent fails with an error and
\* returns no grid.
C7_NegativeRejected ==
  (HasNegativeHalfExtent /\ pc # "start") =>
    /\ pc = "raised"
    /\ err # "none"
    /\ grid = Unbound
    /\ ret = <<>>

\* C7 amended: a negative half-extent is neither rejected nor sanitized.  The
\* call fails (numpy's ValueError for a negative dimension, no grid) exactly
\* when the values as given make north_max < north_min or east_max < east_min;
\* otherwise it returns the grid those values give, with
\* (north_max - north_min) rows and (east_max - east_min) columns.  A negative
\* half_height alone never makes it fail.
C7_NegativeNotRejected ==
  (HasNegativeHalfExtent /\ pc # "start") =>
    LET inverted == SpecNorthMax < SpecNorthMin \/ SpecEastMax < SpecEastMin
    IN /\ inverted => (pc = "raised" /\ err = "ValueError" /\ grid = Unbound /\ ret = <<>>)
       /\ ~inverted =>
            /\ pc \in {"loop", "done"}
            /\ err = "none"
            /\ grid.rows * Scale = SpecNorthMax - SpecNorthMin
            /\ grid.cols * Scale = SpecEastMax - SpecEastMin
       /\ (\A k \in Rows : data[k].d_north >= 0 /\ data[k].d_east >= 0) => pc # "raised"

\* a grid returned although one obstacle has a negative horizontal
\* half-extent and another a negative half-height
C7_Witness ==
  /\ Returned
  /\ \E k \in Rows : data[k].d_north < 0
  /\ \E k \in Rows : data[k].d_alt < 0
  /\ Blocked(ret[1]) # {}

(***************************************************************************)
(* C8                                                                      *)
(***************************************************************************)
ScenarioA ==
  /\ data = <<Obstacle(0, 0, 5 * Scale, 2 * Scale, 2 * Scale, 5 * Scale)>>
  /\ drone_altitude = Scale
  /\ safety_distance = Scale

\* C8 as stated: in scenario A the grid is 7 x 7 with origin (-3, -3), the
\* obstacle passes the altitude test and rows 0 to 6, columns 0 to 6 are
\* BLOCKED.
C8_ScenarioA_SevenBySeven ==
  (ScenarioA /\ pc = "done") =>
    /\ ret[1].rows = 7 /\ ret[1].cols = 7
    /\ north_min = -3 * Scale /\ east_min = -3 * Scale
    /\ Passes(data[1], drone_altitude, safety_distance)
    /\ Blocked(ret[1]) = (0..6) \X (0..6)

\* C8 amended: in scenario A the grid is 4 x 4, covering north in [-2, 2] and
\* east in [-2, 2], with origin (-2, -2); the obstacle passes the altitude
\* test and rows 0 to 3, columns 0 to 3 are BLOCKED, which is every cell.
C8_ScenarioA_FourByFour ==
  (ScenarioA /\ pc = "done") =>
    /\ ret[1].rows = 4 /\ ret[1].cols = 4
    /\ north_min = -2 * Scale /\ north_max = 2 * Scale
    /\ east_min = -2 * Scale /\ east_max = 2 * Scale
    /\ Passes(data[1], drone_altitude, safety_distance)
    /\ Blocked(ret[1]) = (0..3) \X (0..3)
    /\ Blocked(ret[1]) = DOMAIN ret[1].cells

\* scenario A has run to its return
C8_Witness == ScenarioA /\ Returned /\ grid.bound

(***************************************************************************)
(* C9                                                                      *)
(***************************************************************************)
SameOutcomes(m1, m2) ==
  \A k \in Rows : Passes(data[k], drone_altitude, m1) <=> Passes(data[k], drone_altitude, m2)

\* C9: for margins m1 <= m2 under which every obstacle has the same altitude
\* test outcome, every cell BLOCKED with m1 is BLOCKED with m2.
C9_MarginMonotone ==
  Returned =>
    \A m2 \in Margins :
      (safety_distance <= m2 /\ SameOutcomes(safety_distance, m2)) =>
        Blocked(ret[1]) \subseteq Blocked(CreateGrid(data, drone_altitude, m2).ret[1])

\* a larger margin with the same outcomes blocks strictly more cells
C9_Witness ==
  /\ Returned
  /\ Blocked(ret[1]) # {}
  /\ \E m2 \in Margins :
       /\ safety_distance < m2
       /\ SameOutcomes(safety_distance, m2)
       /\ Blocked(ret[1]) # Blocked(CreateGrid(data, drone_altitude, m2).ret[1])

(***************************************************************************)
(* C10                                                                     *)
(***************************************************************************)
\* the cells one obstacle marks on the empty grid of this call
MarkedBy(o, altitude) ==
  Blocked(Populate(Zeros(grid.rows, grid.cols), o, altitude, safety_distance,
                   north_min, east_min))

\* C10: below its threshold alt + d_alt + margin an obstacle marks the same
\* rectangle at every altitude, at or above it none; so for a1 <= a2 every
\* cell BLOCKED at a2 is BLOCKED at a1.
C10_AltitudeMonotone ==
  Returned =>
    /\ LET x == SpecExtent
       IN \A k \in Rows :
            LET thr == data[k].alt + data[k].d_alt + safety_distance
                rect == {p \in DOMAIN ret[1].cells : TouchesCell(data[k], safety_distance, p, x)}
            IN \A a \in Altitudes :
                 MarkedBy(data[k], a) = IF a < thr THEN rect ELSE {}
    /\ \A a2 \in Altitudes :
         drone_altitude <= a2 =>
           Blocked(CreateGrid(data, a2, safety_distance).ret[1]) \subseteq Blocked(ret[1])

\* a higher altitude at which one obstacle has dropped out and another still marks
C10_Witness ==
  /\ Returned
  /\ \E a2 \in Altitudes :
       /\ drone_altitude < a2
       /\ Blocked(CreateGrid(data, a2, safety_distance).ret[1]) # {}
       /\ Blocked(CreateGrid(data, a2, safety_distance).ret[1]) # Blocked(ret[1])
       /\ \E k \in Rows : /\ data[k].alt + data[k].d_alt + safety_distance = a2
                          /\ MarkedBy(data[k], drone_altitude) # {}

(***************************************************************************)
(* C11                                                                     *)
(***************************************************************************)
\* the four clipped indices the run computes for row k of data
IdxOf(k) == ObstacleIdx(data[k], safety_distance, north_min, east_min, grid.rows, grid.cols)

\* C11: with a non-empty obstacle list (half-extents non-negative) the call
\* never raises, whatever the altitude and the margin: once past its first
\* lines it is in the loop or has returned, with a grid and no error.
C11_NoErrorForAnyAltitudeOrMargin ==
  (data # <<>> /\ pc # "start") =>
    /\ pc \in {"loop", "done"}
    /\ err = "none"
    /\ grid.bound
    /\ i \in 1..(Len(data) + 1)
    /\ pc = "done" => ret # <<>>

\* a returned grid built with a negative margin under which an obstacle that
\* passes the test has a low index above its high index
C11_Witness ==
  /\ Returned
  /\ safety_distance < 0
  /\ \E k \in Rows : /\ Passes(data[k], drone_altitude, safety_distance)
                     /\ IdxOf(k)[1] > IdxOf(k)[2]

(***************************************************************************)
(* C12                                                                     *)
(***************************************************************************)
HasGrid == pc \in {"loop", "done"}

\* C12 as stated: for an obstacle that passes the altitude test the two
\* north indices lie in [0, rows - 1] and the two east indices in
\* [0, cols - 1], also when the extent is degenerate.
C12_IndicesInRange ==
  HasGrid =>
    \A k \in Rows :
      Passes(data[k], drone_altitude, safety_distance) =>
        /\ IdxOf(k)[1] \in 0..(grid.rows - 1) /\ IdxOf(k)[2] \in 0..(grid.rows - 1)
        /\ IdxOf(k)[3] \in 0..(grid.cols - 1) /\ IdxOf(k)[4] \in 0..(grid.cols - 1)

\* C12 amended: on an axis of length at least 1 both indices lie in
\* [0, length - 1]; on an axis of length 0 (degenerate extent) both indices
\* are -1, there being no valid index.  In either case the slices
\* low : high + 1 select only indices of the grid, so no cell outside the
\* grid is addressed.
C12_IndicesInRangeUnlessEmptyAxis ==
  HasGrid =>
    \A k \in Rows :
      Passes(data[k], drone_altitude, safety_distance) =>
        LET ob == IdxOf(k)
        IN /\ grid.rows >= 1 => (ob[1] \in 0..(grid.rows - 1) /\ ob[2] \in 0..(grid.rows - 1))
           /\ grid.rows = 0 => (ob[1] = -1 /\ ob[2] = -1)
           /\ grid.cols >= 1 => (ob[3] \in 0..(grid.cols - 1) /\ ob[4] \in 0..(grid.cols - 1))
           /\ grid.cols = 0 => (ob[3] = -1 /\ ob[4] = -1)
           /\ PySlice(ob[1], ob[2] + 1, grid.rows) \subseteq 0..(grid.rows - 1)
           /\ PySlice(ob[3], ob[4] + 1, grid.cols) \subseteq 0..(grid.cols - 1)
           /\ (grid.rows >= 1 /\ ob[1] <= ob[2]) =>
                PySlice(ob[1], ob[2] + 1, grid.rows) = ob[1]..ob[2]
           /\ (grid.cols >= 1 /\ ob[3] <= ob[4]) =>
                PySlice(ob[3], ob[4] + 1, grid.cols) = ob[3]..ob[4]

\* a returned grid with a margin that pushes an obstacle's footprint past
\* both ends of a non-empty north axis, on a grid whose east axis is empty
C12_Witness ==
  /\ Returned
  /\ grid.rows >= 2 /\ grid.cols = 0
  /\ \E k \in Rows :
       /\ Passes(data[k], drone_altitude, safety_distance)
       /\ data[k].north - data[k].d_north - safety_distance - north_min < 0
       /\ data[k].north + data[k].d_north + safety_distance - north_min > (grid.rows - 1) * Scale
       /\ IdxOf(k)[1] = 0 /\ IdxOf(k)[2] = grid.rows - 1

(***************************************************************************)
(* C13                                                                     *)
(***************************************************************************)
\* the four bounds of row k translated by the origin, before np.clip:
\* north low, north high, east low, east high
Translated(k) ==
  <<data[k].north - data[k].d_north - safety_distance - north_min,
    data[k].north + data[k].d_north + safety_distance - north_min,
    data[k].east - data[k].d_east - safety_distance - east_min,
    data[k].east + data[k].d_east + safety_distance - east_min>>
\* the upper limit handed to np.clip for bound j
ClipLimit(j) == IF j <= 2 THEN (grid.rows - 1) * Scale ELSE (grid.cols - 1) * Scale

\* C13 as stated: with margin 0 every translated bound already lies in
\* [0, rows - 1] or [0, cols - 1], and the clamp leaves all four unchanged.
C13_ClampNeverTruncates ==
  (HasGrid /\ safety_distance = 0) =>
    \A k \in Rows : \A j \in 1..4 :
      /\ 0 <= Translated(k)[j] /\ Translated(k)[j] <= ClipLimit(j)
      /\ Clip(Translated(k)[j], 0, ClipLimit(j)) = Translated(k)[j]

\* C13 amended: with margin 0 every translated bound lies within the extent
\* of the grid, [0, rows] or [0, cols], low not above high.  The clamp leaves
\* a bound unchanged unless it lies above rows - 1 (cols - 1): such a bound,
\* for one the high bound of an obstacle reaching the far edge of the extent,
\* is lowered to rows - 1 (cols - 1), by at most one unit.
C13_ClampTruncatesLastUnitOnly ==
  (HasGrid /\ safety_distance = 0) =>
    \A k \in Rows :
      /\ Translated(k)[1] <= Translated(k)[2]
      /\ Translated(k)[3] <= Translated(k)[4]
      /\ \A j \in 1..4 :
           LET t == Translated(k)[j]
               c == Clip(t, 0, ClipLimit(j))
           IN /\ 0 <= t /\ t <= ClipLimit(j) + Scale
              /\ t <= ClipLimit(j) => c = t
              /\ t > ClipLimit(j) => (c = ClipLimit(j) /\ t - c <= Scale)

\* margin 0, one obstacle whose north high bound is cut back by the clamp and
\* another whose four bounds all pass the clamp unchanged
C13_Witness ==
  /\ Returned
  /\ safety_distance = 0
  /\ grid.rows >= 2 /\ grid.cols >= 2
  /\ \E k \in Rows : Clip(Translated(k)[2], 0, ClipLimit(2)) < Translated(k)[2]
  /\ \E k \in Rows : \A j \in 1..4 : Clip(Translated(k)[j], 0, ClipLimit(j)) = Translated(k)[j]

(***************************************************************************)
(* C14 (stated of SpecPar, the marking run by one worker per obstacle)     *)
(***************************************************************************)
\* C14: while the workers write their cells one at a time, in any
\* interleaving, no cell goes from BLOCKED back to FREE, and once all have
\* finished the grid returned is the grid the sequential loop of create_grid
\* returns.
C14_ParallelMarking ==
  /\ [][(grid.bound /\ grid'.bound) =>
          /\ DOMAIN grid'.cells = DOMAIN grid.cells
          /\ \A p \in DOMAIN grid.cells : grid.cells[p] = 1 => grid'.cells[p] = 1]_vars
  /\ [](pc = "done" =>
          [raised |-> FALSE, ret |-> ret] = CreateGrid(data, drone_altitude, safety_distance))

\* two workers with different rectangles that share cells have both finished
C14_Witness ==
  /\ Returned
  /\ pending # <<>>
  /\ \E j, k \in Rows :
       /\ WorkerCells(data[j]) # WorkerCells(data[k])
       /\ WorkerCells(data[j]) \cap WorkerCells(data[k]) # {}
       /\ WorkerCells(data[j]) \ WorkerCells(data[k]) # {}
====
